---- MODULE Spec2Model ----
(***************************************************************************)
(* autofile/model.py: DataFile, DataSeries and DataSeriesFile over a       *)
(* filesystem.  A path is the sequence of its segments below the prefix   *)
(* directory; the filesystem is the set of directories and the text of    *)
(* every regular file.                                                     *)
(***************************************************************************)
EXTENDS Integers, Sequences, FiniteSets, TLC

VARIABLES
  dirs,              \* the directories below (and including) the prefix
  files,             \* regular file path -> its text
  removable,         \* DataSeries.removable, per series
  dfile_removable,   \* DataFile.removable, per file binding
  dsfile_removable,  \* DataSeriesFile.removable, per bound file
  lastOp,            \* the last call: operation, error raised, disk changed
  created,           \* history: the <<series, locs>> whose create returned
  pure,              \* history: nothing but returning creates changed the disk
  nops,              \* the number of calls made
  pc                 \* per concurrent caller: where its create call stands

vars == <<dirs, files, removable, dfile_removable, dsfile_removable,
          lastOp, created, pure, nops, pc>>

(* ------------------------------------------------------------------ *)
(* The configurations under study, all below one prefix directory:     *)
(*   R <- C   a root series and a child of depth 2;                    *)
(*   R <- B   a child whose map_ also returns paths that are absolute, *)
(*            of the wrong depth, or that climb with "..";             *)
(*   R <- N   a child whose map_ sends two locators to one directory;  *)
(*   T <- M <- L   a chain whose middle series has no locators.        *)
(* One locator file binding, two data files bound to C.                *)
(* ------------------------------------------------------------------ *)
MaxOps == 3

Series == {"R", "C"}
AllSeries == {"R", "C", "B", "N", "T", "M", "L"}
RootLocs == {"1", "2"}
ChildLocs == {"a", "b"}
BLocs == {"ok", "up", "abs", "deep"}
NLocs == {"x", "y", "z"}
Values == {"v1", "v2"}
DataFiles == {"loc", "info", "geom"}
DSFiles == {"info", "geom"}
None == "None"

\* locator tuples of every arity from 0 to one too many
LocTuples ==
  {<<>>} \cup {<<r>> : r \in RootLocs}
         \cup {<<r, c>> : r \in RootLocs, c \in ChildLocs}
         \cup {<<"1", "a", "a">>}

\* the environment's fault during a create: none, or an I/O error raised by
\* the os.makedirs or by the locator-file write of the step of series `at`
NoFault == [at |-> None, kind |-> "none"]
FaultKinds == {"makedirs", "write_file"}
FaultsAt(S) == {NoFault} \cup {[at |-> s, kind |-> k] : s \in S, k \in FaultKinds}
Faults == FaultsAt(Series)

\* DataSeries.__init__ arguments
nlocs(s) == IF s = "M" THEN 0 ELSE 1
depth(s) == IF s \in {"C", "B"} THEN 2 ELSE 1
root(s) == CASE s \in {"R", "T"} -> None
             [] s \in {"C", "B", "N"} -> "R"
             [] s = "M" -> "T"
             [] OTHER -> "M"
loc_dfile(s) == IF s = "M" THEN None ELSE "loc"

\* R's map_ is "r" + locator; "up" is the one foreign locator it can be handed
RSeg == [x \in RootLocs \cup {"up"} |->
           CASE x = "1" -> "r1" [] x = "2" -> "r2" [] OTHER -> "rup"]
CSeg == [x \in ChildLocs |-> IF x = "a" THEN "ca" ELSE "cb"]
BSeg == [x \in BLocs |->
           CASE x = "ok" -> <<"B", "/", "ok">>
             [] x = "up" -> <<"..", "/", "x">>
             [] x = "abs" -> <<"/", "abs", "/", "x">>
             [] OTHER -> <<"a", "/", "b", "/", "c">>]
NSeg == [x \in NLocs |-> IF x = "z" THEN "nz" ELSE "same"]
TSeg == [x \in RootLocs |-> IF x = "1" THEN "t1" ELSE "t2"]
LSeg == [x \in ChildLocs |-> IF x = "a" THEN "la" ELSE "lb"]

\* map_: the caller's function from the self locators to a relative path
\* (a path string is the sequence of its names and "/" separators)
map_(s, locs) ==
  CASE s = "R" -> <<RSeg[locs[1]]>>
    [] s = "C" -> <<"CONF", "/", CSeg[locs[1]]>>
    [] s = "B" -> BSeg[locs[1]]
    [] s = "N" -> <<NSeg[locs[1]]>>
    [] s = "T" -> <<TSeg[locs[1]]>>
    [] s = "M" -> <<"MID">>
    [] OTHER -> <<LSeg[locs[1]]>>

\* the locator tuples map_ of s is defined on
MapDomain(s) ==
  CASE s \in {"R", "T"} -> {<<r>> : r \in RootLocs}
    [] s \in {"C", "L"} -> {<<c>> : c \in ChildLocs}
    [] s = "B" -> {<<b>> : b \in BLocs}
    [] s = "N" -> {<<n>> : n \in NLocs}
    [] OTHER -> {<<>>}

\* DataFile.__init__ arguments: name, writer_, reader_
name(f) == CASE f = "loc" -> "dir.yaml"
             [] f = "info" -> "info.txt"
             [] OTHER -> "geom.xyz"

\* info.txt keeps the default identity codec; the others wrap the value
writer_(f, val) == IF f = "info" THEN val ELSE <<"text", val>>
reader_(f, str) == IF f = "info" THEN str ELSE str[2]

\* DataSeriesFile.__init__ arguments: both data files are attached to C
dsf_dir(g) == "C"
dsf_file(g) == g

(* ------------------------------------------------------------------ *)
(* The filesystem                                                      *)
(* ------------------------------------------------------------------ *)
FS(d, f) == [dirs |-> d, files |-> f]

IsPrefix(p, q) == Len(p) <= Len(q) /\ SubSeq(q, 1, Len(p)) = p

\* a path with ".." names: what it names once each ".." has stepped out of
\* the directory before it (the prefix directory is where the model ends)
HasDotDot(p) == \E i \in 1..Len(p) : p[i] = ".."

RECURSIVE normpath(_, _)
normpath(cur, rest) ==
  IF rest = <<>> THEN cur
  ELSE normpath(IF Head(rest) = ".." THEN SubSeq(cur, 1, Len(cur) - 1)
                ELSE Append(cur, Head(rest)),
                Tail(rest))

\* the directories on the way down a path
Visited(p) ==
  IF HasDotDot(p) THEN {normpath(<<>>, SubSeq(p, 1, k)) : k \in 0..Len(p)}
  ELSE {SubSeq(p, 1, k) : k \in 0..Len(p)}

\* a path that names nothing
Nowhere == <<"">>

\* path resolution: ".." is followed only out of a directory that is there
realpath(fs, p) ==
  IF ~HasDotDot(p) THEN p
  ELSE IF \A k \in 1..Len(p) :
            p[k] = ".." => normpath(<<>>, SubSeq(p, 1, k - 1)) \in fs.dirs
  THEN normpath(<<>>, p)
  ELSE Nowhere

isdir(fs, p) == realpath(fs, p) \in fs.dirs
isfile(fs, p) == realpath(fs, p) \in DOMAIN fs.files
path_exists(fs, p) == isdir(fs, p) \/ isfile(fs, p)

\* an operation's outcome: the filesystem after it, the error raised,
\* the value returned, the file paths written
Out(fs, err, ret, wrote) == [fs |-> fs, err |-> err, ret |-> ret, wrote |-> wrote]

\* mutant of makedirs: exist_ok=True
makedirs_exist_ok(fs, pth) ==
  IF isdir(fs, pth) THEN Out(fs, "none", None, {})
  ELSE IF isfile(fs, pth) THEN Out(fs, "FileExistsError", None, {})
  ELSE IF \E d \in Visited(pth) : d \in DOMAIN fs.files
  THEN Out(fs, "NotADirectoryError", None, {})
  ELSE Out(FS(fs.dirs \cup Visited(pth), fs.files), "none", None, {})

\* os.makedirs(pth): every missing directory down to pth; pth must be new
makedirs(fs, pth) ==
  IF path_exists(fs, pth) THEN Out(fs, "FileExistsError", None, {})
  ELSE IF \E d \in Visited(pth) : d \in DOMAIN fs.files
  THEN Out(fs, "NotADirectoryError", None, {})
  ELSE Out(FS(fs.dirs \cup Visited(pth), fs.files), "none", None, {})

\* mutant of rmtree: only pth and the files in it go, directories beneath stay
rmtree_shallow(fs, pth) ==
  LET p == realpath(fs, pth) IN
  FS(fs.dirs \ {p},
     [q \in {q \in DOMAIN fs.files : ~(Len(q) = Len(p) + 1 /\ IsPrefix(p, q))}
        |-> fs.files[q]])

\* shutil.rmtree(pth): pth and everything beneath it
rmtree(fs, pth) ==
  LET p == realpath(fs, pth) IN
  FS({d \in fs.dirs : ~IsPrefix(p, d)},
     [q \in {q \in DOMAIN fs.files : ~IsPrefix(p, q)} |-> fs.files[q]])

\* os.remove(pth): a regular file only
os_remove(fs, pth) ==
  LET p == realpath(fs, pth) IN
  IF p \in DOMAIN fs.files
  THEN Out(FS(fs.dirs, [q \in DOMAIN fs.files \ {p} |-> fs.files[q]]),
           "none", None, {})
  ELSE IF p \in fs.dirs THEN Out(fs, "IsADirectoryError", None, {})
  ELSE Out(fs, "FileNotFoundError", None, {})

\* autofile.io_.write_file(pth, str): create or overwrite
write_file(fs, pth, str) ==
  LET p == realpath(fs, pth) IN
  IF p \in fs.dirs THEN Out(fs, "IsADirectoryError", None, {})
  ELSE IF SubSeq(p, 1, Len(p) - 1) \notin fs.dirs
  THEN Out(fs, "FileNotFoundError", None, {})
  ELSE Out(FS(fs.dirs,
              [q \in DOMAIN fs.files \cup {p} |->
                 IF q = p THEN str ELSE fs.files[q]]),
           "none", None, {p})

\* autofile.io_.read_file(pth)
read_file(fs, pth) == fs.files[realpath(fs, pth)]

(* ------------------------------------------------------------------ *)
(* Path helpers                                                        *)
(* ------------------------------------------------------------------ *)
\* a path string holding one name or none, as that name
AsName(str) == IF str = <<>> THEN "" ELSE str[1]

AllSlashes(str) == \A i \in 1..Len(str) : str[i] = "/"

RECURSIVE rstrip_slashes(_)
rstrip_slashes(str) ==
  IF str # <<>> /\ str[Len(str)] = "/"
  THEN rstrip_slashes(SubSeq(str, 1, Len(str) - 1))
  ELSE str

\* os.path.split: <<head, tail>> around the last separator
os_path_split(pth) ==
  LET seps == {i \in 1..Len(pth) : pth[i] = "/"}
      i == IF seps = {} THEN 0 ELSE CHOOSE k \in seps : \A j \in seps : j <= k
      head == SubSeq(pth, 1, i)
      tail == SubSeq(pth, i + 1, Len(pth))
  IN  <<IF AllSlashes(head) THEN head ELSE rstrip_slashes(head), tail>>

RECURSIVE os_path_split_all(_)
os_path_split_all(pth) ==
  LET parts == os_path_split(pth) IN
  IF parts[1] = pth THEN <<AsName(parts[1])>>
  ELSE IF parts[2] = pth THEN <<AsName(parts[2])>>
  ELSE os_path_split_all(parts[1]) \o <<AsName(parts[2])>>

\* os.path.relpath(pth) == pth: not absolute, and already normalised (no
\* empty name, no "." but alone, no ".." after a name)
path_is_relative(pth) ==
  /\ pth # <<>>
  /\ pth[1] # "/"
  /\ pth[Len(pth)] # "/"
  /\ \A i \in 1..(Len(pth) - 1) : ~(pth[i] = "/" /\ pth[i + 1] = "/")
  /\ \A i \in 1..Len(pth) : pth[i] = "." => Len(pth) = 1
  /\ \A i \in 1..Len(pth) :
       pth[i] = ".." => \A j \in 1..i : pth[j] \in {"..", "/"}

\* mutant of path_has_depth: the depth is not compared
path_has_depth_any(pth, d) == Len(os_path_split_all(pth)) >= 1

path_has_depth(pth, d) == Len(os_path_split_all(pth)) = d

\* os.path.join(prefix, pth) for a directory prefix and a relative pth
os_path_join(prefix, pth) == prefix \o os_path_split_all(pth)

(* ------------------------------------------------------------------ *)
(* DataFile                                                            *)
(* ------------------------------------------------------------------ *)
DataFile_path(f, dir_pth) == Append(dir_pth, name(f))

DataFile_exists(f, dir_pth, fs) == isfile(fs, DataFile_path(f, dir_pth))

\* mutant of DataFile_write: an existing file is left as it is
DataFile_write_keeping(f, val, dir_pth, fs, io_fails) ==
  IF ~path_exists(fs, dir_pth) THEN Out(fs, "AssertionError", None, {})
  ELSE IF io_fails THEN Out(fs, "OSError", None, {})
  ELSE IF isfile(fs, DataFile_path(f, dir_pth)) THEN Out(fs, "none", None, {})
  ELSE write_file(fs, DataFile_path(f, dir_pth), writer_(f, val))

\* mutant of DataFile_write: the directory is not asserted to exist
DataFile_write_unasserted(f, val, dir_pth, fs, io_fails) ==
  IF io_fails THEN Out(fs, "OSError", None, {})
  ELSE write_file(fs, DataFile_path(f, dir_pth), writer_(f, val))

DataFile_write(f, val, dir_pth, fs, io_fails) ==
  IF ~path_exists(fs, dir_pth) THEN Out(fs, "AssertionError", None, {})
  ELSE IF io_fails THEN Out(fs, "OSError", None, {})
  ELSE write_file(fs, DataFile_path(f, dir_pth), writer_(f, val))

DataFile_read(f, dir_pth, fs) ==
  IF ~DataFile_exists(f, dir_pth, fs) THEN Out(fs, "AssertionError", None, {})
  ELSE Out(fs, "none", reader_(f, read_file(fs, DataFile_path(f, dir_pth))), {})

DataFile_remove(f, dir_pth, fs) ==
  IF dfile_removable[f]
  THEN os_remove(fs, DataFile_path(f, dir_pth))
  ELSE Out(fs, "ValueError", None, {})

(* ------------------------------------------------------------------ *)
(* DataSeries                                                          *)
(* ------------------------------------------------------------------ *)
RECURSIVE root_locator_count(_)
root_locator_count(s) ==
  IF root(s) = None THEN 0
  ELSE nlocs(root(s)) + root_locator_count(root(s))

\* mutant of root_locators: the root is handed one element too few
root_locators_short(s, locs) == SubSeq(locs, 1, Len(locs) - nlocs(s) - 1)

\* _self_locators / _root_locators, where their assertion holds
self_locators(s, locs) == SubSeq(locs, Len(locs) - nlocs(s) + 1, Len(locs))
root_locators(s, locs) == SubSeq(locs, 1, Len(locs) - nlocs(s))

Path(err, pth) == [err |-> err, pth |-> pth]

RECURSIVE DataSeries_path(_, _)
DataSeries_path(s, locs) ==
  LET split == root(s) # None
      bad == split /\ Len(locs) < nlocs(s)
      self == IF split /\ ~bad THEN self_locators(s, locs) ELSE locs
      pre == IF ~split THEN Path("none", <<>>)
             ELSE IF bad THEN Path("AssertionError", <<>>)
             ELSE DataSeries_path(root(s), root_locators(s, locs))
  IN  IF pre.err # "none" THEN pre
      ELSE IF Len(self) # nlocs(s) THEN Path("AssertionError", <<>>)
      ELSE IF ~path_is_relative(map_(s, self)) THEN Path("AssertionError", <<>>)
      ELSE IF ~path_has_depth(map_(s, self), depth(s))
      THEN Path("AssertionError", <<>>)
      ELSE Path("none", os_path_join(pre.pth, map_(s, self)))

\* the locator tuples in use for s: every arity from 0 to one too many
TuplesOf(s) ==
  CASE s = "R" -> LocTuples \cup {<<"up">>}
    [] s = "C" -> LocTuples
    [] s = "B" -> {<<>>, <<"1">>, <<"up">>, <<"1", "ok", "ok">>}
                    \cup {<<r, b>> : r \in RootLocs, b \in BLocs}
    [] s = "N" -> {<<>>, <<"1">>, <<"1", "x", "x">>}
                    \cup {<<r, n>> : r \in RootLocs, n \in NLocs}
    [] s \in {"T", "M"} -> {<<>>, <<"1", "a">>} \cup {<<r>> : r \in RootLocs}
    [] OTHER -> LocTuples

\* DataSeries_path, tabulated over the locator tuples in use
PathTable ==
  [s \in AllSeries |-> [locs \in TuplesOf(s) |-> DataSeries_path(s, locs)]]

PathOf(s, locs) == PathTable[s][locs]

\* exists raises what path raises; where path succeeds it is isdir
DataSeries_exists(s, locs, fs) ==
  PathOf(s, locs).err = "none" /\ isdir(fs, PathOf(s, locs).pth)

\* mutant of DataSeries_remove: the removable flag is not consulted
DataSeries_remove_unguarded(s, locs, fs) ==
  LET p == PathOf(s, locs) IN
  IF p.err # "none" THEN Out(fs, p.err, None, {})
  ELSE IF isdir(fs, p.pth) THEN Out(rmtree(fs, p.pth), "none", None, {})
  ELSE Out(fs, "none", None, {})

\* mutant of DataSeries_remove: the path is resolved before the guard
DataSeries_remove_resolving(s, locs, fs) ==
  LET p == PathOf(s, locs) IN
  IF p.err # "none" THEN Out(fs, p.err, None, {})
  ELSE IF ~removable[s] THEN Out(fs, "ValueError", None, {})
  ELSE IF isdir(fs, p.pth) THEN Out(rmtree(fs, p.pth), "none", None, {})
  ELSE Out(fs, "none", None, {})

\* mutant of DataSeries_remove: rmtree without the exists() check
DataSeries_remove_unchecked(s, locs, fs) ==
  IF removable[s]
  THEN LET p == PathOf(s, locs) IN
       IF p.err # "none" THEN Out(fs, p.err, None, {})
       ELSE IF isdir(fs, p.pth) THEN Out(rmtree(fs, p.pth), "none", None, {})
       ELSE Out(fs, "FileNotFoundError", None, {})
  ELSE Out(fs, "ValueError", None, {})

DataSeries_remove(s, locs, fs) ==
  IF removable[s]
  THEN LET p == PathOf(s, locs) IN
       IF p.err # "none" THEN Out(fs, p.err, None, {})
       ELSE IF isdir(fs, p.pth) THEN Out(rmtree(fs, p.pth), "none", None, {})
       ELSE Out(fs, "none", None, {})
  ELSE Out(fs, "ValueError", None, {})

\* mutant of CreateSelf: no exists() check before os.makedirs
CreateSelf_unchecked(s, locs, fault, fs, wrote) ==
  LET p == PathOf(s, locs) IN
  IF p.err # "none" THEN Out(fs, p.err, None, wrote)
  ELSE IF fault = [at |-> s, kind |-> "makedirs"]
  THEN Out(fs, "OSError", None, wrote)
  ELSE LET m == makedirs(fs, p.pth) IN
       IF m.err # "none" THEN Out(fs, m.err, None, wrote)
       ELSE IF loc_dfile(s) = None THEN Out(m.fs, "none", None, wrote)
       ELSE LET w == DataFile_write(loc_dfile(s), self_locators(s, locs), p.pth,
                                    m.fs,
                                    fault = [at |-> s, kind |-> "write_file"])
            IN  Out(w.fs, w.err, None, wrote \cup w.wrote)

\* mutant of CreateSelf: the whole tuple goes into the locator file
CreateSelf_fulllocs(s, locs, fault, fs, wrote) ==
  LET p == PathOf(s, locs) IN
  IF p.err # "none" THEN Out(fs, p.err, None, wrote)
  ELSE IF isdir(fs, p.pth) THEN Out(fs, "none", None, wrote)
  ELSE IF fault = [at |-> s, kind |-> "makedirs"]
  THEN Out(fs, "OSError", None, wrote)
  ELSE LET m == makedirs(fs, p.pth) IN
       IF m.err # "none" THEN Out(fs, m.err, None, wrote)
       ELSE IF loc_dfile(s) = None THEN Out(m.fs, "none", None, wrote)
       ELSE LET w == DataFile_write(loc_dfile(s), locs, p.pth, m.fs,
                                    fault = [at |-> s, kind |-> "write_file"])
            IN  Out(w.fs, w.err, None, wrote \cup w.wrote)

\* lines 158-164: this series' own directory, once the root chain is there
CreateSelf(s, locs, fault, fs, wrote) ==
  LET p == PathOf(s, locs) IN
  IF p.err # "none" THEN Out(fs, p.err, None, wrote)
  ELSE IF isdir(fs, p.pth) THEN Out(fs, "none", None, wrote)
  ELSE IF fault = [at |-> s, kind |-> "makedirs"]
  THEN Out(fs, "OSError", None, wrote)
  ELSE LET m == makedirs(fs, p.pth) IN
       IF m.err # "none" THEN Out(fs, m.err, None, wrote)
       ELSE IF loc_dfile(s) = None THEN Out(m.fs, "none", None, wrote)
       ELSE LET w == DataFile_write(loc_dfile(s), self_locators(s, locs), p.pth,
                                    m.fs,
                                    fault = [at |-> s, kind |-> "write_file"])
            IN  Out(w.fs, w.err, None, wrote \cup w.wrote)

RECURSIVE DataSeries_create(_, _, _, _)

\* mutant of DataSeries_create: a failure of the own step undoes the root chain
DataSeries_create_rollback(s, locs, fault, fs) ==
  IF root(s) = None THEN CreateSelf(s, locs, fault, fs, {})
  ELSE IF Len(locs) < nlocs(s) THEN Out(fs, "AssertionError", None, {})
  ELSE LET r == DataSeries_create(root(s), root_locators(s, locs), fault, fs) IN
       IF r.err # "none" THEN r
       ELSE LET c == CreateSelf(s, locs, fault, r.fs, r.wrote) IN
            IF c.err # "none" THEN Out(fs, c.err, None, {}) ELSE c

DataSeries_create(s, locs, fault, fs) ==
  IF root(s) = None THEN CreateSelf(s, locs, fault, fs, {})
  ELSE IF Len(locs) < nlocs(s) THEN Out(fs, "AssertionError", None, {})
  ELSE LET r == DataSeries_create(root(s), root_locators(s, locs), fault, fs) IN
       IF r.err # "none" THEN r
       ELSE CreateSelf(s, locs, fault, r.fs, r.wrote)

\* the order of names as strings (punctuation < upper case < lower case)
NameOrder ==
  <<"", "..", "B", "CONF", "MID", "a", "abs", "b", "c", "ca", "cb", "dir.yaml",
    "geom.xyz", "info.txt", "la", "lb", "nz", "ok", "r1", "r2", "rup", "same",
    "t1", "t2", "x">>

NameRank(n) == CHOOSE i \in 1..Len(NameOrder) : NameOrder[i] = n

\* p < q as path strings, for paths of the same number of names
RECURSIVE PathLess(_, _)
PathLess(p, q) ==
  IF p = <<>> \/ q = <<>> THEN p = <<>> /\ q # <<>>
  ELSE IF Head(p) = Head(q) THEN PathLess(Tail(p), Tail(q))
  ELSE NameRank(Head(p)) < NameRank(Head(q))

RECURSIVE insert(_, _)
insert(p, pths) ==
  IF pths = <<>> THEN <<p>>
  ELSE IF PathLess(p, Head(pths)) THEN <<p>> \o pths
  ELSE <<Head(pths)>> \o insert(p, Tail(pths))

\* mutant of sorted: the listing is returned in the order it was read
sorted_unsorted(pths) == pths

\* sorted(...) of a list of paths
RECURSIVE sorted(_)
sorted(pths) ==
  IF pths = <<>> THEN <<>> ELSE insert(Head(pths), sorted(Tail(pths)))

\* mutant of glob_depth: one "*" whatever the depth
glob_depth_single(fs, prefix, d) ==
  {p \in fs.dirs \cup DOMAIN fs.files :
     IsPrefix(prefix, p) /\ Len(p) = Len(prefix) + 1}

\* what glob.glob(join(prefix, "*", ..., "*")) matches: all that exists `d`
\* names below prefix
glob_depth(fs, prefix, d) ==
  {p \in fs.dirs \cup DOMAIN fs.files :
     IsPrefix(prefix, p) /\ Len(p) = Len(prefix) + d}

\* the matches in the order the directories are iterated, which is any order
RECURSIVE listed(_)
listed(matches) ==
  IF matches = {} THEN <<>>
  ELSE LET m == CHOOSE m \in matches : TRUE IN <<m>> \o listed(matches \ {m})

\* lines 213-214 on one listing: the directories among it, sorted
SortedDirs(listing, fs) == sorted(SelectSeq(listing, LAMBDA p : isdir(fs, p)))

existing_paths(s, root_locs, fs) ==
  LET pre == IF root(s) = None THEN Path("none", <<>>)
             ELSE PathOf(root(s), root_locs)
  IN  IF pre.err # "none" THEN [err |-> pre.err, pths |-> <<>>]
      ELSE [err |-> "none",
            pths |-> SortedDirs(listed(glob_depth(fs, pre.pth, depth(s))), fs)]

Listing(err, ret) == [err |-> err, ret |-> ret]

\* mutant of ReadLocators: every scanned directory's locator file is read
RECURSIVE ReadLocators_unfiltered(_, _, _, _, _)
ReadLocators_unfiltered(s, pths, root_locs, relative, fs) ==
  IF pths = <<>> THEN Listing("none", <<>>)
  ELSE LET rd == DataFile_read(loc_dfile(s), Head(pths), fs)
           rest == ReadLocators_unfiltered(s, Tail(pths), root_locs, relative, fs)
       IN  IF rd.err # "none" THEN Listing(rd.err, <<>>)
           ELSE IF rest.err # "none" THEN rest
           ELSE Listing("none",
                        <<IF relative THEN rd.ret ELSE root_locs \o rd.ret>>
                          \o rest.ret)

\* lines 197-200: the locator files read back along pths, each behind
\* root_locs unless relative
RECURSIVE ReadLocators(_, _, _, _, _)
ReadLocators(s, pths, root_locs, relative, fs) ==
  IF pths = <<>> THEN Listing("none", <<>>)
  ELSE IF ~DataFile_exists(loc_dfile(s), Head(pths), fs)
  THEN ReadLocators(s, Tail(pths), root_locs, relative, fs)
  ELSE LET rd == DataFile_read(loc_dfile(s), Head(pths), fs)
           rest == ReadLocators(s, Tail(pths), root_locs, relative, fs)
       IN  IF rd.err # "none" THEN Listing(rd.err, <<>>)
           ELSE IF rest.err # "none" THEN rest
           ELSE Listing("none",
                        <<IF relative THEN rd.ret ELSE root_locs \o rd.ret>>
                          \o rest.ret)

RECURSIVE DataSeries_existing(_, _, _, _)
RECURSIVE ChainExisting(_, _, _)

\* mutant of ChainExisting: stops after the first root directory
ChainExisting_first(s, roots, fs) ==
  IF roots = <<>> THEN Listing("none", <<>>)
  ELSE DataSeries_existing(s, Head(roots), FALSE, fs)

\* lines 189-191: existing(root_locs_) for each root_locs_ the root lists
ChainExisting(s, roots, fs) ==
  IF roots = <<>> THEN Listing("none", <<>>)
  ELSE LET first == DataSeries_existing(s, Head(roots), FALSE, fs)
           rest == ChainExisting(s, Tail(roots), fs)
       IN  IF first.err # "none" THEN first
           ELSE IF rest.err # "none" THEN rest
           ELSE Listing("none", first.ret \o rest.ret)

DataSeries_existing(s, root_locs, relative, fs) ==
  IF nlocs(s) = 0
  THEN LET p == PathOf(s, <<>>) IN
       IF p.err # "none" THEN Listing(p.err, <<>>)
       ELSE Listing("none", IF isdir(fs, p.pth) THEN <<<<>>>> ELSE <<>>)
  ELSE IF loc_dfile(s) = None THEN Listing("ValueError", <<>>)
  ELSE IF Len(root_locs) < root_locator_count(s)
  THEN LET up == DataSeries_existing(root(s), root_locs, FALSE, fs) IN
       IF up.err # "none" THEN up ELSE ChainExisting(s, up.ret, fs)
  ELSE IF Len(root_locs) # root_locator_count(s)
  THEN Listing("AssertionError", <<>>)
  ELSE LET e == existing_paths(s, root_locs, fs) IN
       IF e.err # "none" THEN Listing(e.err, <<>>)
       ELSE ReadLocators(s, e.pths, root_locs, relative, fs)

(* ------------------------------------------------------------------ *)
(* DataSeriesFile                                                      *)
(* ------------------------------------------------------------------ *)
DataSeriesFile_write(g, val, locs, fs) ==
  LET p == PathOf(dsf_dir(g), locs) IN
  IF p.err # "none" THEN Out(fs, p.err, None, {})
  ELSE DataFile_write(dsf_file(g), val, p.pth, fs, FALSE)

DataSeriesFile_read(g, locs, fs) ==
  LET p == PathOf(dsf_dir(g), locs) IN
  IF p.err # "none" THEN Out(fs, p.err, None, {})
  ELSE DataFile_read(dsf_file(g), p.pth, fs)

DataSeriesFile_remove(g, locs, fs) ==
  IF dsfile_removable[g]
  THEN LET p == PathOf(dsf_dir(g), locs) IN
       IF p.err # "none" THEN Out(fs, p.err, None, {})
       ELSE os_remove(fs, DataFile_path(dsf_file(g), p.pth))
  ELSE Out(fs, "ValueError", None, {})

(* ------------------------------------------------------------------ *)
(* The state machine: one action per public call                       *)
(* ------------------------------------------------------------------ *)
fsNow == FS(dirs, files)

\* the locator tuples of the right arity for s
FullLocs(s) ==
  CASE s \in {"R", "T", "M"} -> {<<r>> : r \in RootLocs}
    [] s \in {"C", "L"} -> {<<r, c>> : r \in RootLocs, c \in ChildLocs}
    [] s = "B" -> {<<r, b>> : r \in RootLocs, b \in BLocs}
    [] OTHER -> {<<r, n>> : r \in RootLocs, n \in NLocs}

\* what callers pass to s: the right arity, and one tuple of a wrong arity
CallLocs(s) ==
  FullLocs(s) \cup {IF s \in {"R", "T", "M"} THEN <<"1", "a">> ELSE <<"1">>}

\* what callers pass to the bound files: two directories of C, one wrong arity
FileLocs == {<<"1", "a">>, <<"1", "b">>, <<"1">>}

\* the root_locs callers pass to existing
RootPrefixes == {<<>>} \cup {<<r>> : r \in RootLocs} \cup {<<"1", "a">>}

Op(op, err, changed) == [op |-> op, err |-> err, changed |-> changed]

\* the bound-file paths, by <<bound file, locs>>
Bound == DSFiles \X FullLocs("C")

BoundPath ==
  [k \in Bound |->
     DataFile_path(dsf_file(k[1]), PathOf(dsf_dir(k[1]), k[2]).pth)]

\* the callers that run create concurrently, and what they call it with
Callers == {"p", "q", "u"}
RaceCalls == {<<"R", <<"1">>>>, <<"C", <<"1", "a">>>>}

\* a caller's position: the statement it is about to run (at), in the create
\* of series s, within its call of create(locs) on series tgt
At(at, s, tgt, locs, err) ==
  [at |-> at, s |-> s, tgt |-> tgt, locs |-> locs, err |-> err]

Idle == At("idle", None, None, <<>>, "none")

\* the state once the series SS are constructed over an empty prefix
InitOver(SS) ==
  /\ dirs = {<<>>}
  /\ files = [p \in {} |-> None]
  /\ removable \in [SS -> BOOLEAN]
  /\ dfile_removable = [f \in DataFiles |-> FALSE]
  /\ dsfile_removable = [g \in DSFiles |-> FALSE]
  /\ lastOp = Op("init", "none", FALSE)
  /\ created = {}
  /\ pure = TRUE
  /\ nops = 0
  /\ pc = [c \in Callers |-> Idle]

Init == InitOver(Series)

Step(out, op) ==
  /\ nops < MaxOps
  /\ nops' = nops + 1
  /\ dirs' = out.fs.dirs
  /\ files' = out.fs.files
  /\ lastOp' = op
  /\ pc' = pc

\* the series whose step makes the call's first os.makedirs: the outermost one
\* of the chain whose directory is not there yet
RECURSIVE FirstStep(_, _, _)
FirstStep(s, locs, fs) ==
  IF root(s) = None \/ Len(locs) < nlocs(s) THEN s
  ELSE IF DataSeries_exists(root(s), root_locators(s, locs), fs) THEN s
  ELSE FirstStep(root(s), root_locators(s, locs), fs)

Create(s, locs, fault) ==
  LET out == DataSeries_create(s, locs, fault, fsNow) IN
  /\ Step(out, Op("create", out.err, out.fs # fsNow))
  /\ created' = IF out.err = "none" THEN created \cup {<<s, locs>>} ELSE created
  /\ pure' = (pure /\ out.err = "none")
  /\ UNCHANGED <<removable, dfile_removable, dsfile_removable>>

Remove(s, locs) ==
  LET out == DataSeries_remove(s, locs, fsNow) IN
  /\ Step(out, Op("remove", out.err, out.fs # fsNow))
  /\ pure' = (pure /\ out.fs = fsNow)
  /\ UNCHANGED <<removable, dfile_removable, dsfile_removable, created>>

Write(g, val, locs) ==
  LET out == DataSeriesFile_write(g, val, locs, fsNow) IN
  /\ Step(out, Op("write", out.err, out.fs # fsNow))
  /\ pure' = (pure /\ out.fs = fsNow)
  /\ UNCHANGED <<removable, dfile_removable, dsfile_removable, created>>

Read(g, locs) ==
  LET out == DataSeriesFile_read(g, locs, fsNow) IN
  /\ Step(out, Op("read", out.err, out.fs # fsNow))
  /\ UNCHANGED <<removable, dfile_removable, dsfile_removable, created, pure>>

FileRemove(g, locs) ==
  LET out == DataSeriesFile_remove(g, locs, fsNow) IN
  /\ Step(out, Op("file_remove", out.err, out.fs # fsNow))
  /\ pure' = (pure /\ out.fs = fsNow)
  /\ UNCHANGED <<removable, dfile_removable, dsfile_removable, created>>

\* DataFile.remove on the directory of series s for locs
BindingRemove(f, s, locs) ==
  LET out == DataFile_remove(f, PathOf(s, locs).pth, fsNow) IN
  /\ Step(out, Op("binding_remove", out.err, out.fs # fsNow))
  /\ pure' = (pure /\ out.fs = fsNow)
  /\ UNCHANGED <<removable, dfile_removable, dsfile_removable, created>>

Existing(s, root_locs, relative) ==
  LET out == DataSeries_existing(s, root_locs, relative, fsNow) IN
  /\ Step([fs |-> fsNow], Op("existing", out.err, FALSE))
  /\ UNCHANGED <<removable, dfile_removable, dsfile_removable, created, pure>>

\* the caller sets a file binding's removable attribute
SetDataFileRemovable(f) ==
  /\ ~dfile_removable[f]
  /\ Step([fs |-> fsNow], Op("set_removable", "none", FALSE))
  /\ dfile_removable' = [dfile_removable EXCEPT ![f] = TRUE]
  /\ UNCHANGED <<removable, dsfile_removable, created, pure>>

\* the caller sets a bound file's removable attribute
SetDataSeriesFileRemovable(g) ==
  /\ ~dsfile_removable[g]
  /\ Step([fs |-> fsNow], Op("set_removable", "none", FALSE))
  /\ dsfile_removable' = [dsfile_removable EXCEPT ![g] = TRUE]
  /\ UNCHANGED <<removable, dfile_removable, created, pure>>

Next ==
  \/ \E s \in Series : \E locs \in CallLocs(s) :
       \E fault \in FaultsAt({FirstStep(s, locs, fsNow)}) : Create(s, locs, fault)
  \/ \E s \in Series : \E locs \in CallLocs(s) : Remove(s, locs)
  \/ \E g \in DSFiles, val \in Values, locs \in FileLocs : Write(g, val, locs)
  \/ \E g \in DSFiles, locs \in FileLocs \cap FullLocs("C") : Read(g, locs)
  \/ \E g \in DSFiles, locs \in FileLocs : FileRemove(g, locs)
  \/ \E f \in DataFiles, locs \in FileLocs \cap FullLocs("C") : BindingRemove(f, "C", locs)
  \/ \E s \in Series, root_locs \in RootPrefixes, relative \in BOOLEAN :
       Existing(s, root_locs, relative)
  \/ \E f \in DataFiles : SetDataFileRemovable(f)
  \/ \E g \in DSFiles : SetDataSeriesFileRemovable(g)

Spec == Init /\ [][Next]_vars

\* create and remove calls only, none struck by an I/O error, and existing
NextCR ==
  \/ \E s \in Series : \E locs \in CallLocs(s) : Create(s, locs, NoFault)
  \/ \E s \in Series : \E locs \in CallLocs(s) : Remove(s, locs)
  \/ \E s \in Series, root_locs \in RootPrefixes, relative \in BOOLEAN :
       Existing(s, root_locs, relative)

SpecCR == Init /\ [][NextCR]_vars

\* the chain R <- B, an I/O error striking the step of either series
SeriesB == {"R", "B"}

NextB ==
  \/ \E s \in SeriesB, fault \in FaultsAt(SeriesB) : \E locs \in CallLocs(s) :
       Create(s, locs, fault)
  \/ \E s \in SeriesB : \E locs \in CallLocs(s) : Remove(s, locs)
  \/ \E s \in SeriesB, root_locs \in RootPrefixes, relative \in BOOLEAN :
       Existing(s, root_locs, relative)

SpecB == InitOver(SeriesB) /\ [][NextB]_vars

\* the chain T <- M <- L, whose middle series has no locators of its own
Series3 == {"T", "M", "L"}

Next3 ==
  \/ \E s \in Series3 : \E locs \in CallLocs(s) : Create(s, locs, NoFault)
  \/ \E s \in Series3 : \E locs \in CallLocs(s) : Remove(s, locs)
  \/ \E s \in Series3, root_locs \in RootPrefixes, relative \in BOOLEAN :
       Existing(s, root_locs, relative)

Spec3 == InitOver(Series3) /\ [][Next3]_vars

\* the root R with two children, C and N: the map_ of N sends the locators
\* "x" and "y" to one directory
SeriesN == {"R", "C", "N"}

NextN ==
  \/ \E s \in SeriesN : \E locs \in CallLocs(s) : Create(s, locs, NoFault)
  \/ \E s \in SeriesN : \E locs \in CallLocs(s) : Remove(s, locs)
  \/ \E s \in SeriesN, root_locs \in RootPrefixes, relative \in BOOLEAN :
       Existing(s, root_locs, relative)

SpecN == InitOver(SeriesN) /\ [][NextN]_vars

(* ------------------------------------------------------------------ *)
(* Concurrent callers of create: one action per statement that reads   *)
(* or changes the disk (exists, os.makedirs, the locator write)        *)
(* ------------------------------------------------------------------ *)
\* the outermost series of the chain of s, where create starts (line 155)
RECURSIVE Outermost(_)
Outermost(s) == IF root(s) = None THEN s ELSE Outermost(root(s))

\* the series rooted in s on the way down to tgt
RECURSIVE Inner(_, _)
Inner(s, tgt) == IF root(tgt) = s THEN tgt ELSE Inner(s, root(tgt))

\* the locators that the create of s receives within create(locs) on tgt
RECURSIVE LocsFor(_, _, _)
LocsFor(s, tgt, locs) ==
  IF s = tgt THEN locs ELSE LocsFor(s, root(tgt), root_locators(tgt, locs))

\* the directory the caller's current create is about
StepPath(c) == PathOf(pc[c].s, LocsFor(pc[c].s, pc[c].tgt, pc[c].locs))

\* the create of pc[c].s is over: return, or go on in the series rooted in it
Return(c) ==
  IF pc[c].s = pc[c].tgt
  THEN At("done", pc[c].s, pc[c].tgt, pc[c].locs, "none")
  ELSE At("check", Inner(pc[c].s, pc[c].tgt), pc[c].tgt, pc[c].locs, "none")

Raise(c, err) == At("failed", pc[c].s, pc[c].tgt, pc[c].locs, err)

RaceStep(c, to, fs) ==
  /\ pc' = [pc EXCEPT ![c] = to]
  /\ dirs' = fs.dirs
  /\ files' = fs.files
  /\ created' = IF to.at = "done" THEN created \cup {<<to.tgt, to.locs>>}
                ELSE created
  /\ UNCHANGED <<removable, dfile_removable, dsfile_removable, lastOp, pure, nops>>

\* create(locs) is called on tgt: lines 153-155 lead to the outermost series
Call(c, tgt, locs) ==
  /\ pc[c].at = "idle"
  /\ RaceStep(c, At("check", Outermost(tgt), tgt, locs, "none"), fsNow)

\* line 158: if not self.exists(locs)
Check(c) ==
  /\ pc[c].at = "check"
  /\ RaceStep(c,
              IF StepPath(c).err # "none" THEN Raise(c, StepPath(c).err)
              ELSE IF isdir(fsNow, StepPath(c).pth) THEN Return(c)
              ELSE At("mkdir", pc[c].s, pc[c].tgt, pc[c].locs, "none"),
              fsNow)

\* lines 159-160: os.makedirs(pth)
Mkdir(c) ==
  /\ pc[c].at = "mkdir"
  /\ LET m == makedirs(fsNow, StepPath(c).pth) IN
     RaceStep(c,
              IF m.err # "none" THEN Raise(c, m.err)
              ELSE IF loc_dfile(pc[c].s) = None THEN Return(c)
              ELSE At("write", pc[c].s, pc[c].tgt, pc[c].locs, "none"),
              m.fs)

\* lines 162-164: self.loc_dfile.write(locs, pth)
WriteLoc(c) ==
  /\ pc[c].at = "write"
  /\ LET w == DataFile_write(loc_dfile(pc[c].s),
                             self_locators(pc[c].s,
                                           LocsFor(pc[c].s, pc[c].tgt, pc[c].locs)),
                             StepPath(c).pth, fsNow, FALSE)
     IN  RaceStep(c, IF w.err # "none" THEN Raise(c, w.err) ELSE Return(c), w.fs)

NextRace ==
  \/ \E c \in Callers, call \in RaceCalls : Call(c, call[1], call[2])
  \/ \E c \in Callers : Check(c)
  \/ \E c \in Callers : Mkdir(c)
  \/ \E c \in Callers : WriteLoc(c)

SpecRace == Init /\ [][NextRace]_vars

(* ------------------------------------------------------------------ *)
(* Properties                                                          *)
(* ------------------------------------------------------------------ *)
fsNext == FS(dirs', files')

Range(seq) == {seq[i] : i \in 1..Len(seq)}

\* the disk was changed by returning creates of series s only
OnlyCreatesOf(s) == pure /\ \A c \in created : c[1] = s

CreatedLocs == {c[2] : c \in created}

Untouched(fs) == Out(fs, "ValueError", None, {})

\* C1: from the empty prefix, after create(L1), ..., create(Ln) on one series
\* and nothing else, existing() lists exactly L1..Ln, each once; before any
\* create it lists nothing.
C1_EnumerationComplete ==
  \A s \in Series :
    OnlyCreatesOf(s) =>
      LET e == DataSeries_existing(s, <<>>, FALSE, fsNow) IN
      /\ e.err = "none"
      /\ Range(e.ret) = CreatedLocs
      /\ Len(e.ret) = Cardinality(CreatedLocs)

C1_Witness ==
  /\ OnlyCreatesOf("R")
  /\ CreatedLocs = {<<"1">>, <<"2">>}
  /\ lastOp = Op("existing", "none", FALSE)

\* C2: a second create(locs) right after a create(locs) that returned raises
\* nothing, leaves every directory and file as it was and writes no file.
C2_CreateIdempotent ==
  \A s \in Series : \A locs \in LocTuples :
    LET first == DataSeries_create(s, locs, NoFault, fsNow) IN
    first.err = "none" =>
      LET second == DataSeries_create(s, locs, NoFault, first.fs) IN
      /\ second.err = "none"
      /\ second.fs = first.fs
      /\ second.wrote = {}

\* the one create of C that returned is called again
C2_Witness ==
  /\ pure
  /\ created = {<<"C", <<"1", "a">>>>}
  /\ lastOp = Op("create", "none", FALSE)

\* C3: after creating child tuples (r, c) only, the child's existing() with no
\* root prefix lists exactly those tuples, root locator first, and the root's
\* existing() lists exactly their root parts.
C3_RootChainEnumeration ==
  OnlyCreatesOf("C") =>
    LET e == DataSeries_existing("C", <<>>, FALSE, fsNow)
        up == DataSeries_existing("R", <<>>, FALSE, fsNow)
    IN  /\ e.err = "none" /\ up.err = "none"
        /\ Range(up.ret) = {root_locators("C", l) : l \in CreatedLocs}
        /\ Range(e.ret) =
             {root_locators("C", l) \o self_locators("C", l) : l \in CreatedLocs}
        /\ \A i \in 1..Len(e.ret) : \A j \in 1..Len(e.ret) :
             e.ret[i] = e.ret[j] => i = j

C3_Witness ==
  /\ OnlyCreatesOf("C")
  /\ CreatedLocs = {<<"1", "a">>, <<"1", "b">>, <<"2", "a">>}
  /\ Range(DataSeries_existing("C", <<>>, FALSE, fsNow).ret) = CreatedLocs

\* the directories a file binding may be asked about
SeriesDirs ==
  {PathOf(s, locs).pth : s \in Series, locs \in LocTuples}

\* C4: remove on a series, a file binding or a bound file whose removable flag
\* is false raises ValueError for every locator tuple, present or absent, and
\* changes nothing on disk.
C4_GuardEnforced ==
  /\ \A s \in Series : \A locs \in LocTuples :
       ~removable[s] => DataSeries_remove(s, locs, fsNow) = Untouched(fsNow)
  /\ \A f \in DataFiles : \A d \in SeriesDirs :
       ~dfile_removable[f] => DataFile_remove(f, d, fsNow) = Untouched(fsNow)
  /\ \A g \in DSFiles : \A locs \in LocTuples :
       ~dsfile_removable[g] =>
         DataSeriesFile_remove(g, locs, fsNow) = Untouched(fsNow)

\* a refused remove, where no series is removable and each has a directory
C4_Witness ==
  /\ lastOp = Op("remove", "ValueError", FALSE)
  /\ \A s \in Series :
       /\ ~removable[s]
       /\ \E locs \in FullLocs(s) : DataSeries_exists(s, locs, fsNow)

\* the directory of s for locs is on disk now, and gone after the step
Vanishes(s, locs) ==
  DataSeries_exists(s, locs, fsNow) /\ ~DataSeries_exists(s, locs, fsNext)

\* C5, as claimed: a present directory of series s goes absent only by a
\* remove on s itself, with s removable.
C5_AsClaimed ==
  [][\A s \in Series : \A locs \in FullLocs(s) :
       Vanishes(s, locs) =>
         /\ removable[s]
         /\ \E at \in FullLocs(s) : Remove(s, at)]_vars

\* C5, amended: a present directory goes absent only by a remove, on a
\* removable series, of that directory or of a directory that contains it.
C5_OnlyRemoveDeletes ==
  [][\/ dirs \subseteq dirs'
     \/ \A s \in Series : \A locs \in FullLocs(s) :
          Vanishes(s, locs) =>
            \E t \in Series : \E at \in FullLocs(t) :
              /\ removable[t]
              /\ IsPrefix(PathOf(t, at).pth, PathOf(s, locs).pth)
              /\ Remove(t, at)]_vars

\* a remove on the removable root took a directory of the child with it
C5_Witness ==
  /\ lastOp = Op("remove", "none", TRUE)
  /\ removable["R"] /\ ~removable["C"]
  /\ \E c \in created : c[1] = "C" /\ ~DataSeries_exists("C", c[2], fsNow)

\* C6, as claimed: a bound file's removable flag equals its file binding's, so
\* the bound file's remove is refused exactly when the binding is not removable.
C6_AsClaimed ==
  \A g \in DSFiles :
    /\ dsfile_removable[g] = dfile_removable[dsf_file(g)]
    /\ \A locs \in FullLocs(dsf_dir(g)) :
         (DataSeriesFile_remove(g, locs, fsNow).err = "ValueError")
           <=> ~dfile_removable[dsf_file(g)]

\* the values read back through the bound files
ReadBack(g, locs, fs) ==
  LET rd == DataSeriesFile_read(g, locs, fs) IN <<rd.err, rd.ret>>

Failed(fs) == Out(fs, "AssertionError", None, {})

\* C8: write to a locator tuple whose directory is not there, and read of a
\* file that is not there, raise the assertion error and change nothing:
\* neither the directory nor the file appears.
C8_PreconditionErrors ==
  \A g \in DSFiles : \A locs \in LocTuples :
    /\ ~DataSeries_exists(dsf_dir(g), locs, fsNow) =>
         \A val \in Values :
           DataSeriesFile_write(g, val, locs, fsNow) = Failed(fsNow)
    /\ ~(\E k \in Bound : k = <<g, locs>> /\ isfile(fsNow, BoundPath[k])) =>
         DataSeriesFile_read(g, locs, fsNow) = Failed(fsNow)

\* a read failed although both directories it can have named are present
C8_Witness ==
  /\ lastOp.op = "read" /\ lastOp.err = "AssertionError"
  /\ \A locs \in FileLocs \cap FullLocs("C") : DataSeries_exists("C", locs, fsNow)

\* the root_locs prefixes existing accepts for s: the full root arity or less
Prefixes(s) == {rl \in RootPrefixes : Len(rl) <= root_locator_count(s)}

\* C9, as claimed: existing(root_locs, relative=True) lists tuples of length
\* nlocs for every prefix, and existing(root_locs, relative=False) lists
\* tuples of length nlocs + root_locator_count() that start with root_locs.
C9_AsClaimed ==
  \A s \in Series : \A rl \in Prefixes(s) :
    LET bare == DataSeries_existing(s, rl, TRUE, fsNow).ret
        full == DataSeries_existing(s, rl, FALSE, fsNow).ret
    IN  /\ \A i \in 1..Len(bare) : Len(bare[i]) = nlocs(s)
        /\ \A i \in 1..Len(full) :
             /\ Len(full[i]) = nlocs(s) + root_locator_count(s)
             /\ IsPrefix(rl, full[i])

\* the directories existing(root_locs) of s scans, by self locator tuple
Scanned(s, rl) == [l \in MapDomain(s) |-> PathOf(s, rl \o l).pth]

HasLocator(s, d) == isdir(fsNow, d) /\ DataFile_exists(loc_dfile(s), d, fsNow)

\* C10: existing raises nothing whatever directories lack a locator file; at
\* the full root arity it lists exactly the scanned directories that hold a
\* locator file, and with no prefix the child lists exactly the directories
\* that hold one beneath root directories that hold one.
C10_SkipsUnlabelled ==
  /\ \A s \in Series : \A rl \in FullLocs("R") \cup {<<>>} :
       Len(rl) = root_locator_count(s) =>
         LET e == DataSeries_existing(s, rl, TRUE, fsNow) IN
         /\ e.err = "none"
         /\ \A l \in MapDomain(s) :
              l \in Range(e.ret) <=> HasLocator(s, Scanned(s, rl)[l])
  /\ LET e == DataSeries_existing("C", <<>>, FALSE, fsNow) IN
     /\ e.err = "none"
     /\ \A l \in FullLocs("C") :
          l \in Range(e.ret) <=>
            /\ HasLocator("R", PathOf("R", root_locators("C", l)).pth)
            /\ HasLocator("C", PathOf("C", l).pth)

\* existing ran over a root directory without a locator file and one with
C10_Witness ==
  /\ lastOp = Op("existing", "none", FALSE)
  /\ isdir(fsNow, <<"r1">>) /\ ~HasLocator("R", <<"r1">>)
  /\ HasLocator("R", <<"r2">>)
  /\ DataSeries_existing("R", <<>>, FALSE, fsNow).ret = <<<<"2">>>>

(* ------------------------------------------------------------------ *)
(* C11..C19                                                            *)
(* ------------------------------------------------------------------ *)
\* the directories of series s on disk: what lies depth(s) names below the
\* prefix, or below a directory of its root
RECURSIVE SeriesDirsIn(_, _)
SeriesDirsIn(s, fs) ==
  LET bases == IF root(s) = None THEN {<<>>} ELSE SeriesDirsIn(root(s), fs)
  IN  UNION {{p \in glob_depth(fs, b, depth(s)) : p \in fs.dirs} : b \in bases}

\* the directory of s for locs and of every ancestor is there
RECURSIVE ChainExists(_, _, _)
ChainExists(s, locs, fs) ==
  /\ DataSeries_exists(s, locs, fs)
  /\ root(s) # None => ChainExists(root(s), root_locators(s, locs), fs)

\* directory d of series s holds a locator file with a self locator tuple of
\* s whose map_ image is the last depth(s) names of d
Labelled(s, d, fs) ==
  /\ DataFile_exists(loc_dfile(s), d, fs)
  /\ LET l == DataFile_read(loc_dfile(s), d, fs).ret IN
     /\ l \in MapDomain(s)
     /\ os_path_split_all(map_(s, l)) = SubSeq(d, Len(d) - depth(s) + 1, Len(d))

Beneath(fs, p) == {q \in fs.dirs \cup DOMAIN fs.files : IsPrefix(p, q)}

Outside(fs, p) ==
  FS({d \in fs.dirs : ~IsPrefix(p, d)},
     [q \in {q \in DOMAIN fs.files : ~IsPrefix(p, q)} |-> fs.files[q]])

\* C12: remove(locs) on a removable series raises nothing; afterwards the
\* directory is absent with every file and every child series directory that
\* was beneath it, all that is not beneath it (siblings, ancestors, their
\* locator files) is as before, and on an absent directory nothing changes.
C12_RemoveEffectAndFrame ==
  \A s \in Series : \A locs \in FullLocs(s) :
    removable[s] =>
      LET p == PathOf(s, locs).pth
          out == DataSeries_remove(s, locs, fsNow)
      IN  /\ out.err = "none"
          /\ ~DataSeries_exists(s, locs, out.fs)
          /\ \A t \in Series : \A at \in FullLocs(t) :
               IsPrefix(locs, at) => ~DataSeries_exists(t, at, out.fs)
          /\ Beneath(out.fs, p) = {}
          /\ Outside(out.fs, p) = Outside(fsNow, p)
          /\ ~DataSeries_exists(s, locs, fsNow) => out.fs = fsNow

\* a root directory went with the child directory created beneath it, and
\* the other root directory stayed
C12_Witness ==
  /\ lastOp = Op("remove", "none", TRUE)
  /\ removable["R"]
  /\ <<"C", <<"1", "a">>>> \in created
  /\ ~DataSeries_exists("R", <<"1">>, fsNow)
  /\ ~DataSeries_exists("C", <<"1", "a">>, fsNow)
  /\ DataSeries_exists("R", <<"2">>, fsNow)

\* C13: when create(locs) on a child fails at the child's own step (map_
\* fails the validation, or os.makedirs or the locator write raises) where
\* root.create(root_locs) alone returns, the error reaches the caller and the
\* root chain is left as root.create(root_locs) leaves it: nothing is undone.
\* Only the child's own directories, when its os.makedirs had run, are extra.
C13_NoRollback ==
  \A s \in {"B", "C"} : \A locs \in FullLocs(s) : \A fault \in FaultsAt({s}) :
    LET rl == SubSeq(locs, 1, Len(locs) - nlocs(s))
        alone == DataSeries_create(root(s), rl, NoFault, fsNow)
        out == DataSeries_create(s, locs, fault, fsNow)
    IN  (alone.err = "none" /\ out.err # "none") =>
          /\ out.err = IF PathOf(s, locs).err = "none" THEN "OSError"
                        ELSE "AssertionError"
          /\ ChainExists(root(s), rl, out.fs)
          /\ out.fs.files = alone.fs.files
          /\ out.fs.dirs =
               IF PathOf(s, locs).err = "none" /\ fault.kind = "write_file"
               THEN alone.fs.dirs \cup Visited(PathOf(s, locs).pth)
               ELSE alone.fs.dirs

\* a create ended in the assertion error of the path validation, and the root
\* directory it had made by then is there with its locator file
C13_Witness ==
  /\ lastOp = Op("create", "AssertionError", TRUE)
  /\ created = {}
  /\ \E r \in FullLocs("R") :
       /\ ChainExists("R", r, fsNow)
       /\ Labelled("R", PathOf("R", r).pth, fsNow)

\* the call of caller c named locs whose directory is there without a
\* locator file
Unlabelled(c, fs) ==
  LET d == PathOf(pc[c].tgt, pc[c].locs).pth IN
  isdir(fs, d) /\ ~DataFile_exists(loc_dfile(pc[c].tgt), d, fs)

\* C14: create checks and then creates, in separate steps: a caller that has
\* passed the existence check and reaches os.makedirs once another caller has
\* made the directory is refused with FileExistsError, which create lets
\* through; and in a state where a create has returned while the locator file
\* of its directory is not yet written, existing() does not list its locs.
C14_CheckThenCreateRace ==
  [][\A c \in Callers :
       /\ ( /\ pc[c].at = "mkdir" /\ pc'[c] # pc[c]
            /\ isdir(fsNow, StepPath(c).pth) )
          => /\ pc'[c] = Raise(c, "FileExistsError")
             /\ fsNext = fsNow
       /\ (pc'[c].at = "done" /\ Unlabelled(c, fsNext))
          => LET e == DataSeries_existing(pc'[c].tgt, <<>>, FALSE, fsNext) IN
             e.err = "none" /\ pc'[c].locs \notin Range(e.ret)]_vars

\* three callers of create on one absent tuple: one is between os.makedirs and
\* the locator write, one was refused by os.makedirs, one has returned
C14_Witness ==
  \E c1, c2, c3 \in Callers :
    /\ pc[c1] = At("write", "R", "R", <<"1">>, "none")
    /\ pc[c2] = At("failed", "R", "R", <<"1">>, "FileExistsError")
    /\ pc[c3] = At("done", "R", "R", <<"1">>, "none")
    /\ <<"1">> \notin Range(DataSeries_existing("R", <<>>, FALSE, fsNow).ret)

\* C15, as claimed: for the series M with nlocs = 0 under the root T,
\* existing(root_locs) raises nothing and returns one empty locator tuple when
\* M's directory under the root directory of root_locs is there and nothing
\* when it is not; and after creates of L only, L.existing() lists exactly the
\* created full tuples.
C15_AsClaimed ==
  /\ \A rl \in FullLocs("T") :
       LET e == DataSeries_existing("M", rl, FALSE, fsNow) IN
       /\ e.err = "none"
       /\ e.ret = IF DataSeries_exists("M", rl, fsNow) THEN <<<<>>>> ELSE <<>>
  /\ OnlyCreatesOf("L") =>
       LET e == DataSeries_existing("L", <<>>, FALSE, fsNow) IN
       e.err = "none" /\ Range(e.ret) = CreatedLocs

\* the directory of the root of s for locs (the prefix when s has no root)
RootDir(s, locs) ==
  IF root(s) = None THEN <<>>
  ELSE PathOf(root(s), SubSeq(locs, 1, Len(locs) - nlocs(s))).pth

\* what map_ returns for the trailing nlocs elements of locs
SegmentOf(s, locs) == map_(s, SubSeq(locs, Len(locs) - nlocs(s) + 1, Len(locs)))

NameCount(str) == Cardinality({i \in 1..Len(str) : str[i] # "/"})

\* path(locs) fails where map_ returns an absolute path or one whose number
\* of names is not depth, and otherwise is the root directory and depth names
PathShape(s, locs) ==
  LET p == PathOf(s, locs)
      seg == SegmentOf(s, locs)
  IN  /\ (seg[1] = "/" \/ NameCount(seg) # depth(s)) => p.err = "AssertionError"
      /\ p.err = "none" =>
           /\ IsPrefix(RootDir(s, locs), p.pth)
           /\ Len(p.pth) = Len(RootDir(s, locs)) + depth(s)

\* the directory that a create(locs) of s which returned has made, while it
\* stands, lies depth names beneath the directory of its root
MadeBeneathRoot(s, locs) ==
  LET d == realpath(fsNow, PathOf(s, locs).pth) IN
  (<<s, locs>> \in created /\ d \in dirs) =>
    /\ IsPrefix(RootDir(s, locs), d)
    /\ Len(d) = Len(RootDir(s, locs)) + depth(s)

\* C16, as claimed: path(locs) fails or is the root directory joined with
\* depth segments, hence every directory create makes lies exactly depth
\* segments beneath the directory of its root.
C16_AsClaimed ==
  \A s \in SeriesB : \A locs \in FullLocs(s) :
    PathShape(s, locs) /\ MadeBeneathRoot(s, locs)

\* C16, amended: path(locs) fails or is the root directory joined with depth
\* segments; the directory create makes lies exactly depth segments beneath
\* the directory of its root where no segment that map_ returns is "..".
C16_PathDepth ==
  \A s \in SeriesB : \A locs \in FullLocs(s) :
    /\ PathShape(s, locs)
    /\ ~HasDotDot(SegmentOf(s, locs)) => MadeBeneathRoot(s, locs)

\* creates of the child returned for a map_ result of two names and for one
\* that starts with "..": the first directory is beneath r1, the second is not
C16_Witness ==
  /\ {<<"B", <<"1", "ok">>>>, <<"B", <<"1", "up">>>>} \subseteq created
  /\ <<"r1", "B", "ok">> \in dirs
  /\ <<"x">> \in dirs

\* every order in which a set of matches can be listed
Orderings(S) ==
  {f \in [1..Cardinality(S) -> S] : \A i, j \in 1..Cardinality(S) : f[i] = f[j] => i = j}

Ascending(pths) ==
  \A i, j \in 1..Len(pths) : i < j => PathLess(pths[i], pths[j])

\* the root_locs of the full root arity of s
FullPrefixes(s) == IF root(s) = None THEN {<<>>} ELSE FullLocs(root(s))

\* C17: what existing returns is fixed by the directories and locator files
\* on disk: whatever the order in which the scanned directory lists its
\* entries (so whatever the order of the create calls that made them), the
\* scan yields the same paths in ascending order, and existing() returns the
\* locator tuples in the ascending order of their directories' paths.
C17_DeterministicOrder ==
  \A s \in Series :
    /\ \A rl \in FullPrefixes(s) :
         LET e == existing_paths(s, rl, fsNow).pths
             matches == glob_depth(fsNow, RootDir(s, rl \o <<"1">>), depth(s))
         IN  /\ Ascending(e)
             /\ \A ord \in Orderings(matches) : SortedDirs(ord, fsNow) = e
    /\ LET all == DataSeries_existing(s, <<>>, FALSE, fsNow).ret IN
       Ascending([i \in 1..Len(all) |-> PathOf(s, all[i]).pth])

\* existing ran with two child directories beneath r1 and listed them in the
\* order of their paths
C17_Witness ==
  /\ lastOp = Op("existing", "none", FALSE)
  /\ DataSeries_existing("C", <<"1">>, TRUE, fsNow).ret = <<<<"a">>, <<"b">>>>
  /\ Cardinality(Orderings(glob_depth(fsNow, <<"r1">>, depth("C")))) = 2

InSeq(x, seq) == \E i \in 1..Len(seq) : seq[i] = x

\* what existing() of s returns
ListedBy(s, fs) == DataSeries_existing(s, <<>>, FALSE, fs).ret

\* existing() holds exactly the full-arity tuples for which exists is true
Agree(s, fs) ==
  \A L \in FullLocs(s) : InSeq(L, ListedBy(s, fs)) <=> DataSeries_exists(s, L, fs)

\* map_ of s and of every ancestor sends different locator tuples to
\* different segments
RECURSIVE Injective(_)
Injective(s) ==
  /\ \A k, l \in MapDomain(s) : map_(s, k) = map_(s, l) => k = l
  /\ root(s) # None => Injective(root(s))

Arity(s) == nlocs(s) + root_locator_count(s)

Leading(s, locs) == SubSeq(locs, 1, Len(locs) - nlocs(s))
Trailing(s, locs) == SubSeq(locs, Len(locs) - nlocs(s) + 1, Len(locs))

\* C19: a tuple shorter or longer than nlocs + root_locator_count() makes
\* path and exists fail with AssertionError, and create fail with it leaving
\* the filesystem as it was; a tuple of that length gives, where path returns,
\* the root's path for the leading elements (the prefix without a root) joined
\* with map_ of the trailing nlocs elements, and on the chain T <- M <- L
\* (nlocs 1, 0, 1) path returns for every such tuple and create makes that
\* directory.
C19_LocatorSplitting ==
  /\ \A s \in AllSeries : \A locs \in TuplesOf(s) :
       LET p == PathOf(s, locs) IN
       IF Len(locs) # Arity(s)
       THEN p.err = "AssertionError" /\ ~DataSeries_exists(s, locs, fsNow)
       ELSE p.err = "none" =>
              p.pth = os_path_join(RootDir(s, locs), map_(s, Trailing(s, locs)))
  /\ PathOf("C", <<"2", "b">>) = Path("none", <<"r2", "CONF", "cb">>)
  /\ PathOf("L", <<"1", "a">>) = Path("none", <<"t1", "MID", "la">>)
  /\ PathOf("M", <<"2">>) = Path("none", <<"t2", "MID">>)
  /\ \A s \in Series3 : \A locs \in TuplesOf(s) :
       LET out == DataSeries_create(s, locs, NoFault, fsNow) IN
       IF Len(locs) # Arity(s)
       THEN out.err = "AssertionError" /\ out.fs = fsNow
       ELSE /\ out.err = "none"
            /\ isdir(out.fs, PathOf(s, locs).pth)
            /\ isdir(out.fs, RootDir(s, locs))

\* a create with a tuple of the wrong length has just failed, leaving in
\* place the chain a create of L with a full tuple made before
C19_Witness ==
  /\ lastOp = Op("create", "AssertionError", FALSE)
  /\ <<"L", <<"1", "a">>>> \in created
  /\ isdir(fsNow, <<"t1", "MID", "la">>)

====
